---------------------------- MODULE Spec2Model ----------------------------
(***************************************************************************)
(* The chunk-stream decoder of max_dump (src/max_dump/storage_parser.py    *)
(* and the helpers of src/max_dump/utils.py it uses).                      *)
(*                                                                         *)
(* A StorageParser keeps the stream being decoded (_stream) and a nesting  *)
(* counter (_nest) as instance attributes.  parse() is modelled statement  *)
(* by statement: every caller (thread) has a program position, the locals  *)
(* of parse and a stack of _read_nodes activations.                        *)
(*                                                                         *)
(* Integers: TLC's integers are 32 bits wide, so the 64-bit field of an    *)
(* extended header cannot be held at its real width.  The field sizes in   *)
(* bytes are the program's (2, 4, 8); a byte has ByteBits bits instead of  *)
(* 8, and every width-dependent definition is written over ByteBits.       *)
(***************************************************************************)
EXTENDS Integers, Sequences, FiniteSets, TLC

(* ------------------------------ bounds -------------------------------- *)
ByteBits == 2
MaxPayload == 2
MaxNodes == 3
MaxChunks == 3
MaxCalls == 1
SeqCalls == 3

(* --------------------------- program constants ------------------------ *)
SHORT_S == 2
INT_S == 4
LONG_LONG_S == 8

Threads == {1, 2}
Parsers == {1, 2}
CONTAINER_T == "CONTAINER"
VALUE_T == "VALUE"

VARIABLES
    is_ole,     \* the file named by _max_fname is a compound file
    file,       \* stream name -> bytes of that stream inside the file
    src,        \* stream name -> how its bytes were built (read by no action)
    threads,    \* the callers that exist in this scenario
    parsers,    \* the StorageParser instances that exist
    budget,     \* number of parse() calls the scenario makes
    _stream,    \* StorageParser._stream, per instance
    _nest,      \* StorageParser._nest, per instance
    pc,         \* position of each caller
    self,       \* the instance a caller's parse() runs on
    name,       \* stream_name argument of parse()
    length,     \* local `length` of parse(); then the argument of the next
                \* _read_nodes call
    stack,      \* activations of _read_nodes, innermost last
    item,       \* local `item` of the innermost activation
    result,     \* what parse() returned or raised
    calls,      \* parse() calls started so far
    log,        \* every finished parse() call, in order
    iters,      \* loop iterations begun in the current parse() call
    overran     \* some activation's consumed exceeded its length

vars == <<is_ole, file, src, threads, parsers, budget, _stream, _nest, pc,
          self, name, length, stack, item, result, calls, log, iters,
          overran>>

(* ------------------------------ arithmetic ---------------------------- *)
RECURSIVE Pow2(_)
Pow2(n) == IF n <= 0 THEN 1 ELSE 2 * Pow2(n - 1)

Min(a, b) == IF a < b THEN a ELSE b

\* Number of bits of a natural number (Python's int.bit_length).
RECURSIVE BitLength(_)
BitLength(n) == IF n <= 0 THEN 0 ELSE 1 + BitLength(n \div 2)

\* Bitwise and of two natural numbers.
RECURSIVE BitAnd(_, _)
BitAnd(a, b) ==
    IF a = 0 \/ b = 0 THEN 0
    ELSE (a % 2) * (b % 2) + 2 * BitAnd(a \div 2, b \div 2)

\* Python's ~x.
PyInvert(x) == (-x) - 1

\* Python's x & y for y >= 0 and x of either sign: a negative x is an
\* unbounded two's-complement number, whose low bits are x mod 2^k.
PyAnd(x, y) == BitAnd(x % Pow2(BitLength(y)), y)

\* Python's 1 << n.
ShiftLeft(x, n) == x * Pow2(n)

\* Faults of unset_sign_bit: arithmetic negation; a mask that keeps the sign
\* bit.
unset_sign_bit_negated(number, len) == -number

unset_sign_bit_kept(number, len) ==
    PyAnd(number, ShiftLeft(1, len * ByteBits) - 1)

\* unset_sign_bit(number, length); `length' is the size in bytes.
unset_sign_bit(number, len) ==
    LET number_of_bits == len * ByteBits
        sign_bit == ShiftLeft(1, number_of_bits - 1)
        byte_mask == ShiftLeft(1, number_of_bits) - 1
    IN  PyAnd(number, PyAnd(PyInvert(sign_bit), byte_mask))

(* ------------------------------ the cursor ---------------------------- *)
Byte == 0 .. (Pow2(ByteBits) - 1)

\* io.BytesIO(ba): a buffer and a position.
BytesIO(ba) == [buf |-> ba, pos |-> 0]

\* stream.read(n): up to n bytes, all the rest when n is negative; never
\* past the end, and never an error.
StreamRead(s, n) ==
    LET avail == Len(s.buf) - s.pos
        k == IF n < 0 THEN avail ELSE Min(n, avail)
    IN  [data |-> SubSeq(s.buf, s.pos + 1, s.pos + k),
         stream |-> [s EXCEPT !.pos = s.pos + k]]

\* The unsigned little-endian value of a byte string.
RECURSIVE Unsigned(_)
Unsigned(data) ==
    IF data = <<>> THEN 0
    ELSE Head(data) + Pow2(ByteBits) * Unsigned(Tail(data))

\* struct.unpack of one signed integer of Len(data) bytes (native order,
\* little-endian on the platforms the format comes from).
unpack(data) ==
    LET u == Unsigned(data)
        half == Pow2(Len(data) * ByteBits - 1)
    IN  IF u >= half THEN u - 2 * half ELSE u

\* read_short / read_int / read_long_long: read `size' bytes and unpack
\* them; struct.error when the stream gave fewer.
read_fixed(s, size) ==
    LET r == StreamRead(s, size)
    IN  [ok |-> Len(r.data) = size,
         val |-> IF Len(r.data) = size THEN unpack(r.data) ELSE 0,
         stream |-> r.stream]

read_short(s) == read_fixed(s, SHORT_S)
read_int(s) == read_fixed(s, INT_S)
read_long_long(s) == read_fixed(s, LONG_LONG_S)

(* ------------------------------ the header ---------------------------- *)
StorageHeader(idn, len, storage_type, extended) ==
    [idn |-> idn, length |-> len, storage_type |-> storage_type,
     extended |-> extended]

NoHeader == StorageHeader(0, 0, "", FALSE)

\* Fault of the header size: the identifier's two bytes forgotten.
header_length_no_idn(extended) ==
    IF extended THEN INT_S + LONG_LONG_S ELSE INT_S

\* Lines 223-225: the bytes a header occupies.
header_length(extended) ==
    IF extended THEN SHORT_S + INT_S + LONG_LONG_S ELSE SHORT_S + INT_S

\* Lines 214-232 of _read_header: from the length field read (and whether it
\* was the 64-bit one) to the header.
make_header(idn, chunk_length, extended) ==
    LET size_of_length == IF extended THEN LONG_LONG_S ELSE INT_S
        storage_type == IF chunk_length < 0 THEN CONTAINER_T ELSE VALUE_T
        magnitude == IF chunk_length < 0
                     THEN unset_sign_bit(chunk_length, size_of_length)
                     ELSE chunk_length
    IN  StorageHeader(idn, magnitude - header_length(extended),
                      storage_type, extended)

\* Fault of _read_header: the assertion on the extended length left out.
read_header_unasserted(s) ==
    LET r1 == read_short(s)
        r2 == read_int(r1.stream)
        r3 == read_long_long(r2.stream)
    IN  IF ~r1.ok
        THEN [err |-> "struct.error", header |-> NoHeader, stream |-> r1.stream]
        ELSE IF ~r2.ok
        THEN [err |-> "struct.error", header |-> NoHeader, stream |-> r2.stream]
        ELSE IF r2.val # 0
        THEN [err |-> "", header |-> make_header(r1.val, r2.val, FALSE),
              stream |-> r2.stream]
        ELSE IF ~r3.ok
        THEN [err |-> "struct.error", header |-> NoHeader, stream |-> r3.stream]
        ELSE [err |-> "", header |-> make_header(r1.val, r3.val, TRUE),
              stream |-> r3.stream]

\* _read_header on stream s: the header, the stream after the reads, and the
\* exception raised ("" when none).
read_header(s) ==
    LET r1 == read_short(s)
        r2 == read_int(r1.stream)
        r3 == read_long_long(r2.stream)
    IN  IF ~r1.ok
        THEN [err |-> "struct.error", header |-> NoHeader, stream |-> r1.stream]
        ELSE IF ~r2.ok
        THEN [err |-> "struct.error", header |-> NoHeader, stream |-> r2.stream]
        ELSE IF r2.val # 0
        THEN [err |-> "", header |-> make_header(r1.val, r2.val, FALSE),
              stream |-> r2.stream]
        ELSE IF ~r3.ok
        THEN [err |-> "struct.error", header |-> NoHeader, stream |-> r3.stream]
        ELSE IF r3.val = 0
        THEN [err |-> "AssertionError", header |-> NoHeader,
              stream |-> r3.stream]
        ELSE [err |-> "", header |-> make_header(r1.val, r3.val, TRUE),
              stream |-> r3.stream]

\* _read_value(length) on stream s.
read_value(s, len) == StreamRead(s, len)

(* ------------------------------ the nodes ----------------------------- *)
StorageValue(header, value) ==
    [header |-> header, nest |-> 0, value |-> value, childs |-> <<>>]

StorageContainer(header, childs) ==
    [header |-> header, nest |-> 0, value |-> <<>>, childs |-> childs]

NoItem == StorageValue(NoHeader, <<>>)

Returned(nodes) == [ok |-> TRUE, err |-> "", nodes |-> nodes]
Raised(e) == [ok |-> FALSE, err |-> e, nodes |-> <<>>]
NoResult == Raised("")

(* --------------------------- input streams ---------------------------- *)
\* The bytes struct.pack would give for integer v in `size' bytes.
RECURSIVE PackU(_, _)
PackU(u, size) ==
    IF size = 0 THEN <<>>
    ELSE <<u % Pow2(ByteBits)>> \o PackU(u \div Pow2(ByteBits), size - 1)

pack(v, size) == PackU(v % Pow2(size * ByteBits), size)

\* A length field with the sign bit set over magnitude m.
Tagged(m, size) == m - Pow2(size * ByteBits - 1)

Hdr(idn, raw) == pack(idn, SHORT_S) \o pack(raw, INT_S)
HdrExt(idn, raw64) ==
    pack(idn, SHORT_S) \o pack(0, INT_S) \o pack(raw64, LONG_LONG_S)

\* Input trees: what an encoder of the format would be given.
InValue(idn, ext, payload) ==
    [kind |-> VALUE_T, idn |-> idn, ext |-> ext, payload |-> payload,
     childs |-> <<>>]
InContainer(idn, ext, childs) ==
    [kind |-> CONTAINER_T, idn |-> idn, ext |-> ext, payload |-> <<>>,
     childs |-> childs]

\* The format's header sizes: 6 bytes, 14 with the 64-bit length field.
EncodedHeaderSize(ext) == IF ext THEN 14 ELSE 6

RECURSIVE EncodeTree(_), EncodeForest(_)
EncodeTree(t) ==
    LET body == IF t.kind = VALUE_T THEN t.payload ELSE EncodeForest(t.childs)
        total == Len(body) + EncodedHeaderSize(t.ext)
        size == IF t.ext THEN LONG_LONG_S ELSE INT_S
        raw == IF t.kind = VALUE_T THEN total ELSE Tagged(total, size)
    IN  (IF t.ext THEN HdrExt(t.idn, raw) ELSE Hdr(t.idn, raw)) \o body
EncodeForest(f) ==
    IF f = <<>> THEN <<>> ELSE EncodeTree(Head(f)) \o EncodeForest(Tail(f))

\* The forest decoding must give for an input forest, the top level at
\* nesting n.
RECURSIVE ExpectTree(_, _), ExpectForest(_, _)
ExpectTree(t, n) ==
    IF t.kind = VALUE_T
    THEN [header |-> StorageHeader(t.idn, Len(t.payload), VALUE_T, t.ext),
          nest |-> n, value |-> t.payload, childs |-> <<>>]
    ELSE [header |-> StorageHeader(t.idn, Len(EncodeForest(t.childs)),
                                   CONTAINER_T, t.ext),
          nest |-> n, value |-> <<>>, childs |-> ExpectForest(t.childs, n + 1)]
ExpectForest(f, n) ==
    IF f = <<>> THEN <<>>
    ELSE <<ExpectTree(Head(f), n)>> \o ExpectForest(Tail(f), n)

\* A forest with the nesting values blanked.
RECURSIVE Strip(_)
Strip(f) ==
    IF f = <<>> THEN <<>>
    ELSE <<[Head(f) EXCEPT !.nest = 0, !.childs = Strip(Head(f).childs)]>>
         \o Strip(Tail(f))

RECURSIVE SeqsUpTo(_, _)
SeqsUpTo(S, n) ==
    IF n = 0 THEN {<<>>}
    ELSE LET shorter == SeqsUpTo(S, n - 1)
         IN  shorter \cup {Append(q, x) : q \in {r \in shorter : Len(r) = n - 1},
                                          x \in S}

ValueLeaves ==
    {InValue(1, FALSE, <<>>), InValue(1, FALSE, <<1, 2>>),
     InValue(-1, TRUE, <<3>>)}

RECURSIVE TreesOf(_), ForestsOf(_)
TreesOf(n) ==
    (IF n = 1 THEN ValueLeaves ELSE {})
    \cup {InContainer(2, e, f) : e \in BOOLEAN, f \in ForestsOf(n - 1)}
ForestsOf(n) ==
    IF n = 0 THEN {<<>>}
    ELSE UNION {{<<t>> \o f : t \in TreesOf(k), f \in ForestsOf(n - k)} :
                k \in 1 .. n}

Idns == {-Pow2(SHORT_S * ByteBits - 1), -1, 0, 1, Pow2(SHORT_S * ByteBits - 1) - 1}

\* Streams of one plain Value chunk, every identifier and every payload.
ValueSources ==
    {[kind |-> "value", forest |-> <<InValue(i, FALSE, p)>>] :
        i \in Idns, p \in SeqsUpTo(Byte, MaxPayload)}

\* Well-formed streams: the encodings of forests.
ForestSources ==
    {[kind |-> "forest", forest |-> f] :
        f \in UNION {ForestsOf(n) : n \in 0 .. MaxNodes}}

\* Pieces of arbitrary, mostly malformed streams.
RawChunks ==
    {Hdr(1, 8) \o <<1, 2>>,                  \* Value of 2 bytes
     Hdr(1, 8) \o <<1>>,                     \* Value of 2 bytes, 1 present
     Hdr(1, 3),                              \* length below the header size
     Hdr(2, Tagged(0, INT_S)),               \* the minimum 32-bit value
     Hdr(2, Tagged(12, INT_S)),              \* Container of 6 bytes
     HdrExt(3, 0),                           \* zero extended length
     HdrExt(3, Tagged(20, LONG_LONG_S)),     \* extended Container of 6 bytes
     HdrExt(3, Tagged(0, LONG_LONG_S)),      \* the minimum 64-bit value
     <<1, 0, 2>>}                            \* half a header

RECURSIVE Concat(_)
Concat(q) == IF q = <<>> THEN <<>> ELSE Head(q) \o Concat(Tail(q))

RawStreams == {Concat(q) : q \in SeqsUpTo(RawChunks, MaxChunks)}

Inputs ==
    {<<s, EncodeForest(s.forest)>> : s \in ValueSources \cup ForestSources}
    \cup {<<[kind |-> "raw", forest |-> <<>>], b>> : b \in RawStreams}

(* ------------------------------- Init --------------------------------- *)
InitParsers ==
    /\ _stream = [p \in Parsers |-> BytesIO(<<>>)]
    /\ _nest = [p \in Parsers |-> 0]
    /\ pc = [t \in Threads |-> "idle"]
    /\ self = [t \in Threads |-> 1]
    /\ name = [t \in Threads |-> ""]
    /\ length = [t \in Threads |-> 0]
    /\ stack = [t \in Threads |-> <<>>]
    /\ item = [t \in Threads |-> NoItem]
    /\ result = [t \in Threads |-> NoResult]
    /\ calls = 0
    /\ log = <<>>
    /\ iters = [t \in Threads |-> 0]
    /\ overran = [t \in Threads |-> FALSE]

\* One caller, one parser, a file with one stream "s".
Init ==
    /\ threads = {1}
    /\ parsers = {1}
    /\ budget = MaxCalls
    /\ \/ /\ is_ole = TRUE
          /\ \E i \in Inputs :
                /\ src = [n \in {"s"} |-> i[1]]
                /\ file = [n \in {"s"} |-> i[2]]
       \/ /\ is_ole = FALSE
          /\ src = [n \in {"s"} |-> [kind |-> "raw", forest |-> <<>>]]
          /\ file = [n \in {"s"} |-> <<>>]
    /\ InitParsers

RawSource == [kind |-> "raw", forest |-> <<>>]
ForestSource(f) == [kind |-> "forest", forest |-> f]

V12 == InValue(1, FALSE, <<1, 2>>)

\* Several calls, one after the other, on two parsers; stream "a" is well
\* formed, stream "b" ends in the middle of a header.
SeqGood == {<<V12>>, <<InContainer(2, FALSE, <<V12>>)>>}
SeqBad == {<<1, 0, 2>>, Hdr(2, Tagged(12, INT_S)) \o <<1, 0, 2>>}

InitSeq ==
    /\ threads = {1}
    /\ parsers = Parsers
    /\ budget = SeqCalls
    /\ is_ole = TRUE
    /\ \E g \in SeqGood, b \in SeqBad :
          /\ src = [n \in {"a", "b"} |->
                       IF n = "a" THEN ForestSource(g) ELSE RawSource]
          /\ file = [n \in {"a", "b"} |->
                        IF n = "a" THEN EncodeForest(g) ELSE b]
    /\ InitParsers

\* Two callers, each free to use either parser; both streams well formed.
ConcA == {<<V12>>, <<InContainer(2, FALSE, <<V12>>)>>}
ConcB == {<<InContainer(4, TRUE, <<>>), InValue(3, FALSE, <<3>>)>>}

InitConc ==
    /\ threads = Threads
    /\ parsers = Parsers
    /\ budget = Cardinality(Threads)
    /\ is_ole = TRUE
    /\ \E a \in ConcA, b \in ConcB :
          /\ src = [n \in {"a", "b"} |->
                       IF n = "a" THEN ForestSource(a) ELSE ForestSource(b)]
          /\ file = [n \in {"a", "b"} |->
                        IF n = "a" THEN EncodeForest(a) ELSE EncodeForest(b)]
    /\ InitParsers

(* ------------------------------ actions ------------------------------- *)
Top(t) == stack[t][Len(stack[t])]
SetTop(t, f) == [stack EXCEPT ![t] = [@ EXCEPT ![Len(@)] = f]]
Frame(len, start) ==
    [length |-> len, start |-> start, items |-> <<>>, consumed |-> 0,
     header |-> NoHeader]

scenario == <<is_ole, file, src, threads, parsers, budget>>

LogEntry(t, r) == [self |-> self[t], name |-> name[t], result |-> r]

\* An exception leaves parse(): every activation is abandoned where it is.
Raise(t, e) ==
    /\ pc' = [pc EXCEPT ![t] = "done"]
    /\ result' = [result EXCEPT ![t] = Raised(e)]
    /\ stack' = [stack EXCEPT ![t] = <<>>]
    /\ log' = Append(log, LogEntry(t, Raised(e)))

\* A caller calls parse(stream_name) on one of the parsers.
parse(t) ==
    /\ t \in threads
    /\ pc[t] \in {"idle", "done"}
    /\ calls < budget
    /\ \E p \in parsers, n \in DOMAIN file \cup {"missing"} :
          /\ self' = [self EXCEPT ![t] = p]
          /\ name' = [name EXCEPT ![t] = n]
    /\ pc' = [pc EXCEPT ![t] = "read_stream"]
    /\ calls' = calls + 1
    /\ length' = [length EXCEPT ![t] = 0]
    /\ stack' = [stack EXCEPT ![t] = <<>>]
    /\ item' = [item EXCEPT ![t] = NoItem]
    /\ result' = [result EXCEPT ![t] = NoResult]
    /\ iters' = [iters EXCEPT ![t] = 0]
    /\ overran' = [overran EXCEPT ![t] = FALSE]
    /\ UNCHANGED <<scenario, _stream, _nest, log>>

\* Line 142 and _read_stream.
_read_stream(t) ==
    /\ pc[t] = "read_stream"
    /\ IF ~is_ole
       THEN Raise(t, "OSError") /\ UNCHANGED _stream
       ELSE IF name[t] \notin DOMAIN file
       THEN Raise(t, "ValueError") /\ UNCHANGED _stream
       ELSE /\ _stream' = [_stream EXCEPT ![self[t]] = BytesIO(file[name[t]])]
            /\ pc' = [pc EXCEPT ![t] = "seek"]
            /\ UNCHANGED <<result, stack, log>>
    /\ UNCHANGED <<scenario, _nest, self, name, length, item, calls, iters,
                   overran>>

\* Lines 143-145: length = seek(0, 2); seek(0, 0); call _read_nodes(length).
seek(t) ==
    /\ pc[t] = "seek"
    /\ length' = [length EXCEPT ![t] = Len(_stream[self[t]].buf)]
    /\ _stream' = [_stream EXCEPT ![self[t]].pos = 0]
    /\ pc' = [pc EXCEPT ![t] = "enter"]
    /\ UNCHANGED <<scenario, _nest, self, name, stack, item, result, calls,
                   log, iters, overran>>

\* Lines 173-176: the head of _read_nodes(length).
enter(t) ==
    /\ pc[t] = "enter"
    /\ _nest' = [_nest EXCEPT ![self[t]] = @ + 1]
    /\ stack' = [stack EXCEPT ![t] =
                    Append(@, Frame(length[t], _stream[self[t]].pos))]
    /\ pc' = [pc EXCEPT ![t] = "loop"]
    /\ UNCHANGED <<scenario, _stream, self, name, length, item, result, calls,
                   log, iters, overran>>

\* Fault of line 177: while consumed <= length.
loop_inclusive(t) ==
    /\ pc[t] = "loop"
    /\ IF Top(t).consumed <= Top(t).length
       THEN /\ pc' = [pc EXCEPT ![t] = "header"]
            /\ iters' = [iters EXCEPT ![t] = @ + 1]
       ELSE /\ pc' = [pc EXCEPT ![t] = "exit"]
            /\ UNCHANGED iters
    /\ UNCHANGED <<scenario, _stream, _nest, self, name, length, stack, item,
                   result, calls, log, overran>>

\* Line 177: while consumed < length.
loop(t) ==
    /\ pc[t] = "loop"
    /\ IF Top(t).consumed < Top(t).length
       THEN /\ pc' = [pc EXCEPT ![t] = "header"]
            /\ iters' = [iters EXCEPT ![t] = @ + 1]
       ELSE /\ pc' = [pc EXCEPT ![t] = "exit"]
            /\ UNCHANGED iters
    /\ UNCHANGED <<scenario, _stream, _nest, self, name, length, stack, item,
                   result, calls, log, overran>>

\* Lines 178-179: item = None; header = self._read_header().
_read_header(t) ==
    /\ pc[t] = "header"
    /\ LET r == read_header(_stream[self[t]])
       IN  /\ _stream' = [_stream EXCEPT ![self[t]] = r.stream]
           /\ IF r.err # ""
              THEN Raise(t, r.err)
              ELSE /\ stack' = SetTop(t, [Top(t) EXCEPT !.header = r.header])
                   /\ pc' = [pc EXCEPT ![t] = "branch"]
                   /\ UNCHANGED <<result, log>>
    /\ UNCHANGED <<scenario, _nest, self, name, length, item, calls, iters,
                   overran>>

\* Lines 180-181: a Container; its childs are read by a nested call.
read_childs(t) ==
    /\ pc[t] = "branch"
    /\ Top(t).header.storage_type = CONTAINER_T
    /\ length' = [length EXCEPT ![t] = Top(t).header.length]
    /\ pc' = [pc EXCEPT ![t] = "enter"]
    /\ UNCHANGED <<scenario, _stream, _nest, self, name, stack, item, result,
                   calls, log, iters, overran>>

\* Lines 183-185: a Value; its bytes are read.
_read_value(t) ==
    /\ pc[t] = "branch"
    /\ Top(t).header.storage_type = VALUE_T
    /\ LET r == read_value(_stream[self[t]], Top(t).header.length)
       IN  /\ _stream' = [_stream EXCEPT ![self[t]] = r.stream]
           /\ item' = [item EXCEPT ![t] = StorageValue(Top(t).header, r.data)]
    /\ pc' = [pc EXCEPT ![t] = "append"]
    /\ UNCHANGED <<scenario, _nest, self, name, length, stack, result, calls,
                   log, iters, overran>>

\* Lines 190-192: item._nest = self._nest; items.append(item);
\* consumed = tell() - start.
append(t) ==
    /\ pc[t] = "append"
    /\ LET f == Top(t)
           consumed == _stream[self[t]].pos - f.start
       IN  /\ stack' = SetTop(t, [f EXCEPT
                    !.items = Append(@, [item[t] EXCEPT
                                            !.nest = _nest[self[t]]]),
                    !.consumed = consumed])
           /\ overran' = [overran EXCEPT ![t] = @ \/ consumed > f.length]
    /\ pc' = [pc EXCEPT ![t] = "loop"]
    /\ UNCHANGED <<scenario, _stream, _nest, self, name, length, item, result,
                   calls, log, iters>>

\* Lines 194-195 of a nested call, then line 182 of its caller.
return_childs(t) ==
    /\ pc[t] = "exit"
    /\ Len(stack[t]) > 1
    /\ _nest' = [_nest EXCEPT ![self[t]] = @ - 1]
    /\ stack' = [stack EXCEPT ![t] = SubSeq(@, 1, Len(@) - 1)]
    /\ item' = [item EXCEPT ![t] =
                   StorageContainer(stack[t][Len(stack[t]) - 1].header,
                                    Top(t).items)]
    /\ pc' = [pc EXCEPT ![t] = "append"]
    /\ UNCHANGED <<scenario, _stream, self, name, length, result, calls, log,
                   iters, overran>>

\* Lines 194-195 of the outermost call, then line 146: parse returns.
return_nodes(t) ==
    /\ pc[t] = "exit"
    /\ Len(stack[t]) = 1
    /\ _nest' = [_nest EXCEPT ![self[t]] = @ - 1]
    /\ stack' = [stack EXCEPT ![t] = <<>>]
    /\ result' = [result EXCEPT ![t] = Returned(Top(t).items)]
    /\ log' = Append(log, LogEntry(t, Returned(Top(t).items)))
    /\ pc' = [pc EXCEPT ![t] = "done"]
    /\ UNCHANGED <<scenario, _stream, self, name, length, item, calls, iters,
                   overran>>

Next ==
    \E t \in Threads :
        \/ parse(t)
        \/ _read_stream(t)
        \/ seek(t)
        \/ enter(t)
        \/ loop(t)
        \/ _read_header(t)
        \/ read_childs(t)
        \/ _read_value(t)
        \/ append(t)
        \/ return_childs(t)
        \/ return_nodes(t)

Spec == Init /\ [][Next]_vars
SeqSpec == InitSeq /\ [][Next]_vars
ConcSpec == InitConc /\ [][Next]_vars

TypeOK ==
    /\ \A p \in Parsers : _stream[p].pos \in 0 .. Len(_stream[p].buf)
    /\ \A t \in Threads : pc[t] \in {"idle", "read_stream", "seek", "enter",
                                     "loop", "header", "branch", "append",
                                     "exit", "done"}
(* ------------------------------ properties ---------------------------- *)
Cur(t) == _stream[self[t]]
Done(t) == pc[t] = "done"
InNodes(t) == pc[t] \in {"enter", "loop", "header", "branch", "append", "exit"}
Source(t) == src[name[t]]
WellFormed(t) == is_ole /\ name[t] \in DOMAIN file /\ Source(t).kind # "raw"

\* C1: whenever decoding a chunk moved the cursor past the budget of the
\* level it was read at, parse raises instead of returning a forest.
C1_OverrunRaises ==
    \A t \in Threads : Done(t) /\ overran[t] => ~result[t].ok

C3_ContainerRoundTrip ==
    \A t \in Threads :
        WellFormed(t) =>
            /\ Done(t) =>
                  /\ result[t].ok
                  /\ Strip(result[t].nodes) =
                        Strip(ExpectForest(Source(t).forest, 1))
            /\ pc[t] = "exit" =>
                  /\ Top(t).consumed = Top(t).length
                  /\ Cur(t).pos = Top(t).start + Top(t).length

C3_Witness ==
    /\ Done(1) /\ WellFormed(1) /\ result[1].ok
    /\ Len(Source(1).forest) = 2
    /\ Source(1).forest[1].kind = CONTAINER_T
    /\ Source(1).forest[1].childs # <<>>
    /\ Source(1).forest[1].childs[1].kind = CONTAINER_T
    /\ Len(result[1].nodes) = 2

\* C4: every Value node parse returns holds exactly the header.length bytes
\* its header declares, never fewer (a negative header.length is the case
\* of C5 and is left to it).
RECURSIVE ValuesExact(_)
ValuesExact(f) ==
    \A i \in DOMAIN f :
        IF f[i].header.storage_type = VALUE_T
        THEN f[i].header.length >= 0 => Len(f[i].value) = f[i].header.length
        ELSE ValuesExact(f[i].childs)

C4_ValuesExact ==
    \A t \in Threads : Done(t) /\ result[t].ok => ValuesExact(result[t].nodes)

\* C5: the header decoder never yields a negative payload length.
C5_LengthNonNegative ==
    \A t \in Threads : pc[t] = "branch" => Top(t).header.length >= 0

\* C6: a header whose 32-bit length field is zero and whose 64-bit length
\* field is zero too makes the header decoding fail, and the whole parse
\* ends with an error: no forest, no partial result.
ZeroZeroAt(s) ==
    /\ s.pos + SHORT_S + INT_S + LONG_LONG_S <= Len(s.buf)
    /\ \A i \in (s.pos + SHORT_S + 1) .. (s.pos + SHORT_S + INT_S + LONG_LONG_S) :
          s.buf[i] = 0

C6_ZeroZeroAborts ==
    [][\A t \in Threads :
          (pc[t] = "header" /\ ZeroZeroAt(Cur(t)) /\ pc'[t] # pc[t]) =>
              /\ pc'[t] = "done"
              /\ ~result'[t].ok
              /\ result'[t].nodes = <<>>
              /\ stack'[t] = <<>>
              /\ log' = Append(log, LogEntry(t, Raised("AssertionError")))]_vars

C6_Witness ==
    /\ Done(1)
    /\ result[1] = Raised("AssertionError")
    /\ _nest[self[1]] >= 2

\* C7: for the raw length field r that _read_header read (the 64-bit one
\* after a zero 32-bit one): Container iff r < 0, Value otherwise; the
\* magnitude is r with the sign bit of that field cleared; header.length is
\* the magnitude minus 6, or minus 14 with extended = TRUE.
FieldAt(s, at, size) == unpack(SubSeq(s.buf, at + 1, at + size))

C7_HeaderFields ==
    \A t \in Threads :
        pc[t] = "branch" =>
            LET s == Cur(t)
                h == Top(t).header
                at == Top(t).start + Top(t).consumed
                raw32 == FieldAt(s, at + SHORT_S, INT_S)
                raw64 == FieldAt(s, at + SHORT_S + INT_S, LONG_LONG_S)
                ext == raw32 = 0
                r == IF ext THEN raw64 ELSE raw32
                w == (IF ext THEN LONG_LONG_S ELSE INT_S) * ByteBits
                magnitude == IF r < 0 THEN r + Pow2(w - 1) ELSE r
            IN  /\ h.extended = ext
                /\ h.storage_type = (IF r < 0 THEN CONTAINER_T ELSE VALUE_T)
                /\ magnitude = r % Pow2(w - 1)
                /\ h.length = magnitude - EncodedHeaderSize(ext)
                /\ h.idn = FieldAt(s, at, SHORT_S)

C7_Witness ==
    /\ pc[1] = "branch"
    /\ Len(stack[1]) = 2
    /\ stack[1][1].header.extended
    /\ stack[1][1].header.storage_type = CONTAINER_T
    /\ FieldAt(Cur(1), Top(1).start + SHORT_S, INT_S) = -Pow2(INT_S * ByteBits - 1)
    /\ Top(1).header.length = -6

\* C8: two parse calls over identical stream bytes, on the same parser or
\* on different ones and whatever calls came before, give equal results,
\* the nesting value of every node included.
C8_Deterministic ==
    \A i, j \in DOMAIN log :
        (/\ log[i].name \in DOMAIN file
         /\ log[j].name \in DOMAIN file
         /\ file[log[i].name] = file[log[j].name]) =>
            log[i].result = log[j].result

\* C9: a parse call interleaved with another returns the forest it returns
\* when run alone (on a parser no failed call has touched, a well-formed
\* stream decodes to its chunks, the top level at nesting 1).
C9_NoInterference ==
    \A t \in Threads :
        Done(t) /\ WellFormed(t) =>
            result[t] = Returned(ExpectForest(Source(t).forest, 1))

\* C10 as stated: the loop iterations of a parse call and its recursion
\* depth are both at most the buffer length divided by 6.
C10_IterationsWithinLength ==
    \A t \in Threads :
        (InNodes(t) \/ Done(t)) =>
            /\ 6 * iters[t] <= Len(Cur(t).buf)
            /\ 6 * (Len(stack[t]) - 1) <= Len(Cur(t).buf)

\* C10 amended: every iteration either raises, which ends the parse, or
\* moves the cursor forward by at least 6 bytes; a call with budget <= 0
\* returns an empty list without reading; so at most len / 6 iterations
\* complete, at most one more (the last, which raises) begins, and the
\* nested recursion depth is at most len / 6.
HeaderRaised(t) ==
    Done(t) /\ result[t].err \in {"struct.error", "AssertionError"}

C10_Terminates ==
    \A t \in Threads :
        (InNodes(t) \/ Done(t)) =>
            LET s == Cur(t)
                n == Len(s.buf) \div 6
            IN  /\ s.pos <= Len(s.buf)
                /\ iters[t] <= n + 1
                /\ (pc[t] = "header" \/ HeaderRaised(t)) =>
                       6 * (iters[t] - 1) <= s.pos
                /\ ~(pc[t] = "header" \/ HeaderRaised(t)) =>
                       6 * iters[t] <= s.pos
                /\ Len(stack[t]) - 1 <= n
                /\ pc[t] = "branch" =>
                       s.pos >= Top(t).start + Top(t).consumed + 6
                /\ (pc[t] = "exit" /\ Top(t).length <= 0) =>
                       /\ Top(t).items = <<>>
                       /\ s.pos = Top(t).start

C10_Witness ==
    /\ Done(1)
    /\ result[1] = Raised("struct.error")
    /\ iters[1] >= 2
    /\ iters[1] = Len(Cur(1).buf) \div 6 + 1
=============
